---------------------------- MODULE Spec2Model ----------------------------
(***************************************************************************)
(* Model of the two asset scripts of EaseVerse:                            *)
(*   scripts/generate_apple_icons.py  - the icon rendering pipeline        *)
(*   scripts/optimize_web_assets.py   - the web asset optimizer            *)
(*                                                                         *)
(* A canvas is modelled by its mode, its size and the ordered list of      *)
(* drawing-primitive calls issued on it; a path by the sequence of its     *)
(* components below ROOT; a file by a record describing its content.       *)
(***************************************************************************)
EXTENDS Integers, Sequences, FiniteSets, TLC

\* ------------------------------------------------------------------ bounds
\* numerators and denominators of the logical values handed to _w
MaxNum == 12
MaxDen == 8
\* largest beat count handed to icon_beats
MaxCount == 6

VARIABLES
  \* --- calls of the pure functions (scaler and parametric builders)
  call,       \* name of the function last applied, "none" before any call
  arg,        \* its inputs: [num, den, count, flag]
  result,     \* what it returned
  prev,       \* what the same builder returned for the other selector value
  swapped,    \* TRUE once the selector has been swapped and the builder re-run
  \* --- generate_apple_icons.py, the __main__ loop
  pc,         \* position in the loop body: "build", "save", "print", "done", "failed"
  idx,        \* 1-based position in ICON_BUILD of the entry being processed
  canvas,     \* the image the current entry's builder returned
  files,      \* content of every registered destination path
  dirs,       \* the directories that exist
  log,        \* the lines printed by this run (the reported paths)
  built,      \* the entries whose builder this run has invoked, in order
  persisted,  \* the entries this run has saved, in order
  exit,       \* "running", or how the process ended: "ok" / "error"
  run,        \* "first" or "second" invocation of the script
  startFiles, \* files as they were when the current run started
  firstExit,  \* how the first run ended ("none" during the first run)
  \* --- the catalog processed out of order / interleaved
  sel,        \* the entries being processed
  work,       \* per selected entry: "todo", its built canvas, or "saved"
  \* --- optimize_web_assets.py
  fs,         \* the files below ROOT: a function from existing paths to contents
  fs0,        \* fs as it was before the first run
  opc,        \* "start", "loop", "done", "failed"
  sources,    \* what discover_sources() returned
  oi,         \* 1-based position in sources of the next source
  total_before,
  total_after,
  count_files, \* count of run()
  report,     \* the per-file lines printed by this run
  totals,     \* the "Total" line printed by this run
  runs,       \* how many times the script has been started
  firstSources \* what discover_sources() returned in the first run

pureVars == <<call, arg, result, prev, swapped>>

iconVars == <<pc, idx, canvas, files, dirs, log, built, persisted, exit, run,
              startFiles, firstExit>>

parVars == <<sel, work>>

optVars == <<fs, fs0, opc, sources, oi, total_before, total_after, count_files, report,
             totals, runs, firstSources>>

vars == <<pureVars, iconVars, parVars, optVars>>

\* ------------------------------------------------- generate_apple_icons.py
SIZE == 512
SCALE == 4
CANVAS == SIZE * SCALE

WHITE == <<243, 246, 252, 255>>
SOFT_WHITE == <<220, 228, 242, 255>>
BLUE == <<10, 132, 255, 255>>
ORANGE == <<255, 159, 10, 255>>
RED == <<255, 69, 58, 255>>
GREEN == <<52, 199, 89, 255>>

\* Python's None for a fill/outline colour and for a line joint
NoColor == <<>>
NoJoint == "none"

\* floor instead of truncation: \div rounds toward minus infinity
IntFloor(n, d) == n \div d

\* Python's int() of the real number n/d (d > 0): truncation toward zero
int(n, d) == IF n >= 0 THEN n \div d ELSE -((-n) \div d)

\* _w applied to the float value num/den: int(value * SCALE).  Multiplying a
\* float by 4 is exact, so the result is the truncation of the exact product.
_w_frac(num, den) == int(num * SCALE, den)

\* _w on the integer logical coordinates the builders use
_w(value) == _w_frac(value, 1)

_stroke_frac(num, den) == _w_frac(num, den)

_stroke(base) == _w(base)

\* _new(): a fully transparent RGBA canvas of side CANVAS with nothing drawn
_new == [mode |-> "RGBA", size |-> <<CANVAS, CANVAS>>, ops |-> <<>>]

\* the calls of a builder body, issued in order on the canvas it allocated
DrawAll(img, calls) == [img EXCEPT !.ops = @ \o calls]

\* ImageDraw primitives, with Pillow's defaults made explicit by the callers
ellipse(xy, fill, outline, width) ==
  [op |-> "ellipse", xy |-> xy, fill |-> fill, outline |-> outline, width |-> width]

arc(xy, start, end, fill, width) ==
  [op |-> "arc", xy |-> xy, start |-> start, end |-> end, fill |-> fill, width |-> width]

line(xy, fill, width, joint) ==
  [op |-> "line", xy |-> xy, fill |-> fill, width |-> width, joint |-> joint]

polygon(xy, fill, outline, width) ==
  [op |-> "polygon", xy |-> xy, fill |-> fill, outline |-> outline, width |-> width]

rounded_rectangle(xy, radius, fill, outline, width) ==
  [op |-> "rounded_rectangle", xy |-> xy, radius |-> radius, fill |-> fill,
   outline |-> outline, width |-> width]

text(xy, glyph, fill, font) ==
  [op |-> "text", xy |-> xy, text |-> glyph, fill |-> fill, font |-> font]

load_default(size) == [font |-> "default", size |-> size]

_rounded_rect(xy, radius, outline, width) ==
  rounded_rectangle(xy, radius, NoColor, outline, width)

\* def icon_singing
icon_singing ==
  LET s == _stroke(42)
  IN  DrawAll(_new, <<
      ellipse(<<_w(180), _w(90), _w(332), _w(250)>>, NoColor, WHITE, s),
      arc(<<_w(180), _w(154), _w(332), _w(316)>>, 20, 160, WHITE, s),
      line(<<_w(256), _w(250), _w(256), _w(372)>>, WHITE, s, NoJoint),
      arc(<<_w(174), _w(356), _w(338), _w(432)>>, 200, 340, WHITE, s),
      line(<<_w(384), _w(180), _w(422), _w(164), _w(462), _w(180), _w(500), _w(164)>>, ORANGE, _stroke(24), "curve")
    >>)

\* def icon_lyrics
icon_lyrics ==
  LET s == _stroke(34)
  IN  DrawAll(_new, <<
      _rounded_rect(<<_w(108), _w(80), _w(336), _w(426)>>, _w(28), WHITE, s),
      line(<<_w(142), _w(170), _w(280), _w(170)>>, SOFT_WHITE, _stroke(26), NoJoint),
      line(<<_w(142), _w(230), _w(280), _w(230)>>, SOFT_WHITE, _stroke(26), NoJoint),
      line(<<_w(142), _w(290), _w(240), _w(290)>>, SOFT_WHITE, _stroke(26), NoJoint),
      line(<<_w(330), _w(174), _w(426), _w(142), _w(426), _w(288)>>, BLUE, _stroke(30), "curve"),
      ellipse(<<_w(298), _w(300), _w(352), _w(354)>>, BLUE, NoColor, 1),
      ellipse(<<_w(394), _w(268), _w(448), _w(322)>>, BLUE, NoColor, 1)
    >>)

\* def icon_sessions
icon_sessions ==
  LET s == _stroke(30)
  IN  DrawAll(_new, <<
      _rounded_rect(<<_w(130), _w(132), _w(318), _w(390)>>, _w(24), SOFT_WHITE, s),
      _rounded_rect(<<_w(176), _w(96), _w(364), _w(354)>>, _w(24), WHITE, s),
      _rounded_rect(<<_w(222), _w(62), _w(410), _w(320)>>, _w(24), WHITE, s),
      line(<<_w(252), _w(142), _w(374), _w(142)>>, SOFT_WHITE, _stroke(20), NoJoint),
      line(<<_w(252), _w(198), _w(360), _w(198)>>, SOFT_WHITE, _stroke(20), NoJoint),
      line(<<_w(252), _w(254), _w(338), _w(254)>>, SOFT_WHITE, _stroke(20), NoJoint)
    >>)

\* def icon_profile
icon_profile ==
  LET s == _stroke(34)
  IN  DrawAll(_new, <<
      ellipse(<<_w(186), _w(82), _w(326), _w(222)>>, NoColor, WHITE, s),
      rounded_rectangle(<<_w(104), _w(236), _w(408), _w(412)>>, _w(90), NoColor, WHITE, s)
    >>)

\* def icon_live_mode
icon_live_mode ==
  LET s == _stroke(32)
  IN  DrawAll(_new, <<
      _rounded_rect(<<_w(84), _w(138), _w(430), _w(346)>>, _w(50), WHITE, s),
      ellipse(<<_w(372), _w(172), _w(420), _w(220)>>, ORANGE, NoColor, 1),
      line(<<_w(158), _w(244), _w(356), _w(244)>>, SOFT_WHITE, _stroke(24), NoJoint)
    >>)

\* def icon_lyrics_sync
icon_lyrics_sync ==
  LET s == _stroke(28)
  IN  DrawAll(_new, <<
      _rounded_rect(<<_w(194), _w(174), _w(318), _w(334)>>, _w(20), WHITE, s),
      arc(<<_w(70), _w(70), _w(442), _w(442)>>, 35, 170, WHITE, s),
      polygon(<<<<_w(420), _w(120)>>, <<_w(462), _w(120)>>, <<_w(438), _w(160)>>>>, WHITE, NoColor, 1),
      arc(<<_w(70), _w(70), _w(442), _w(442)>>, 215, 350, WHITE, s),
      polygon(<<<<_w(92), _w(394)>>, <<_w(132), _w(394)>>, <<_w(108), _w(430)>>>>, WHITE, NoColor, 1)
    >>)

\* icon_feedback with the accent always on the last bar
icon_feedback_accent_last(high) ==
  LET base_y == _w(390)
      bar_w == _w(54)
      gap == _w(34)
      x0 == _w(112)
      heights == IF ~high
                 THEN <<_w(260), _w(210), _w(160), _w(110)>>
                 ELSE <<_w(120), _w(170), _w(230), _w(280)>>
      x(i) == x0 + i * (bar_w + gap)
      color(i) == IF i = 3 THEN ORANGE ELSE SOFT_WHITE
      bar(i) == rounded_rectangle(<<x(i), base_y - heights[i + 1], x(i) + bar_w, base_y>>,
                                  _w(16), color(i), NoColor, 1)
  IN  DrawAll(_new, [k \in 1..Len(heights) |-> bar(k - 1)])

\* def icon_feedback
icon_feedback(high) ==
  LET base_y == _w(390)
      bar_w == _w(54)
      gap == _w(34)
      x0 == _w(112)
      heights == IF ~high
                 THEN <<_w(260), _w(210), _w(160), _w(110)>>
                 ELSE <<_w(120), _w(170), _w(230), _w(280)>>
      \* loop variable i is 0-based as in enumerate(heights); x advances by
      \* bar_w + gap after every bar
      x(i) == x0 + i * (bar_w + gap)
      color(i) == IF (high /\ i = 3) \/ (~high /\ i = 0) THEN ORANGE ELSE SOFT_WHITE
      bar(i) == rounded_rectangle(<<x(i), base_y - heights[i + 1], x(i) + bar_w, base_y>>,
                                  _w(16), color(i), NoColor, 1)
  IN  DrawAll(_new, [k \in 1..Len(heights) |-> bar(k - 1)])

\* def icon_mindfulness_voice
icon_mindfulness_voice ==
  LET s == _stroke(34)
  IN  DrawAll(_new, <<
      ellipse(<<_w(182), _w(92), _w(330), _w(248)>>, NoColor, WHITE, s),
      arc(<<_w(182), _w(154), _w(330), _w(308)>>, 20, 160, WHITE, s),
      line(<<_w(256), _w(246), _w(256), _w(350)>>, WHITE, s, NoJoint),
      arc(<<_w(174), _w(336), _w(338), _w(412)>>, 200, 340, WHITE, s),
      line(<<_w(350), _w(250), _w(382), _w(214), _w(414), _w(266), _w(452), _w(228), _w(490), _w(246)>>, ORANGE, _stroke(24), "curve")
    >>)

\* def icon_language_accent
icon_language_accent ==
  LET s == _stroke(26)
      xs == <<338, 374, 410>>
  IN  DrawAll(_new, <<
      ellipse(<<_w(90), _w(84), _w(358), _w(352)>>, NoColor, WHITE, s),
      arc(<<_w(120), _w(84), _w(328), _w(352)>>, 90, 270, SOFT_WHITE, _stroke(20)),
      arc(<<_w(140), _w(84), _w(308), _w(352)>>, 90, 270, SOFT_WHITE, _stroke(16)),
      line(<<_w(90), _w(218), _w(358), _w(218)>>, SOFT_WHITE, _stroke(20), NoJoint),
      rounded_rectangle(<<_w(292), _w(148), _w(456), _w(274)>>, _w(46), NoColor, WHITE, s),
      polygon(<<<<_w(330), _w(274)>>, <<_w(300), _w(308)>>, <<_w(334), _w(292)>>>>, WHITE, NoColor, 1)
    >> \o [k \in 1..Len(xs) |->
      ellipse(<<_w(xs[k]), _w(198), _w(xs[k] + 20), _w(218)>>, ORANGE, NoColor, 1)
    ])

\* def icon_howto
icon_howto ==
  LET s == _stroke(30)
  IN  DrawAll(_new, <<
      _rounded_rect(<<_w(110), _w(92), _w(402), _w(424)>>, _w(34), WHITE, s),
      _rounded_rect(<<_w(198), _w(58), _w(314), _w(118)>>, _w(18), WHITE, _stroke(24)),
      line(<<_w(156), _w(192), _w(292), _w(192)>>, SOFT_WHITE, _stroke(20), NoJoint),
      line(<<_w(156), _w(246), _w(272), _w(246)>>, SOFT_WHITE, _stroke(20), NoJoint),
      line(<<_w(156), _w(300), _w(292), _w(300)>>, SOFT_WHITE, _stroke(20), NoJoint),
      ellipse(<<_w(286), _w(174), _w(404), _w(292)>>, NoColor, WHITE, _stroke(20)),
      polygon(<<<<_w(330), _w(208)>>, <<_w(330), _w(258)>>, <<_w(372), _w(233)>>>>, BLUE, NoColor, 1),
      text(<<_w(382), _w(94)>>, "?", ORANGE, load_default(_w(82)))
    >>)

\* def icon_record
icon_record ==
  DrawAll(_new, <<
      ellipse(<<_w(108), _w(108), _w(404), _w(404)>>, NoColor, RED, _stroke(36)),
      ellipse(<<_w(194), _w(194), _w(318), _w(318)>>, RED, NoColor, 1)
    >>)

\* def icon_stop
icon_stop ==
  DrawAll(_new, <<
      rounded_rectangle(<<_w(128), _w(128), _w(384), _w(384)>>, _w(76), RED, NoColor, 1)
    >>)

\* def icon_metronome
icon_metronome ==
  LET s == _stroke(26)
  IN  DrawAll(_new, <<
      polygon(<<<<_w(256), _w(92)>>, <<_w(128), _w(412)>>, <<_w(384), _w(412)>>>>, <<0, 0, 0, 0>>, WHITE, s),
      line(<<_w(256), _w(180), _w(338), _w(308)>>, ORANGE, _stroke(24), NoJoint),
      ellipse(<<_w(324), _w(292), _w(362), _w(330)>>, ORANGE, NoColor, 1)
    >>)

\* def icon_flag
icon_flag ==
  LET s == _stroke(24)
  IN  DrawAll(_new, <<
      line(<<_w(146), _w(88), _w(146), _w(420)>>, WHITE, s, NoJoint),
      polygon(<<<<_w(158), _w(110)>>, <<_w(376), _w(154)>>, <<_w(158), _w(210)>>>>, ORANGE, NoColor, 1),
      line(<<_w(146), _w(420), _w(222), _w(420)>>, WHITE, s, NoJoint)
    >>)

\* def icon_bpm
icon_bpm ==
  LET s == _stroke(24)
  IN  DrawAll(_new, <<
      polygon(<<<<_w(256), _w(92)>>, <<_w(144), _w(354)>>, <<_w(368), _w(354)>>>>, <<0, 0, 0, 0>>, WHITE, s),
      line(<<_w(256), _w(184), _w(316), _w(276)>>, ORANGE, _stroke(20), NoJoint),
      ellipse(<<_w(300), _w(260), _w(332), _w(292)>>, ORANGE, NoColor, 1),
      line(<<_w(92), _w(418), _w(184), _w(418), _w(214), _w(392), _w(242), _w(436), _w(272), _w(406), _w(420), _w(406)>>, BLUE, _stroke(16), "curve")
    >>)

\* def icon_count_in
icon_count_in ==
  LET s == _stroke(20)
      xs == <<170, 230, 290, 350>>
      \* enumerate(..., start=1): i is the 1-based position
      color(i) == IF i = 4 THEN ORANGE ELSE SOFT_WHITE
  IN  DrawAll(_new, <<
      arc(<<_w(82), _w(82), _w(430), _w(430)>>, 300, 580, WHITE, s)
    >> \o [i \in 1..Len(xs) |->
      ellipse(<<_w(xs[i]), _w(244), _w(xs[i] + 30), _w(274)>>, color(i), NoColor, 1)
    ] \o <<
      line(<<_w(256), _w(112), _w(256), _w(170)>>, ORANGE, _stroke(16), NoJoint)
    >>)

\* def icon_lyrics_flow
icon_lyrics_flow ==
  DrawAll(_new, <<
      line(<<_w(98), _w(170), _w(290), _w(170)>>, SOFT_WHITE, _stroke(24), NoJoint),
      polygon(<<<<_w(290), _w(146)>>, <<_w(352), _w(170)>>, <<_w(290), _w(194)>>>>, SOFT_WHITE, NoColor, 1),
      line(<<_w(98), _w(256), _w(330), _w(256)>>, WHITE, _stroke(24), NoJoint),
      polygon(<<<<_w(330), _w(230)>>, <<_w(394), _w(256)>>, <<_w(330), _w(282)>>>>, BLUE, NoColor, 1),
      line(<<_w(98), _w(340), _w(370), _w(340)>>, SOFT_WHITE, _stroke(24), NoJoint),
      polygon(<<<<_w(370), _w(314)>>, <<_w(434), _w(340)>>, <<_w(370), _w(366)>>>>, ORANGE, NoColor, 1)
    >>)

\* def icon_about
icon_about ==
  DrawAll(_new, <<
      ellipse(<<_w(110), _w(110), _w(402), _w(402)>>, NoColor, WHITE, _stroke(28)),
      ellipse(<<_w(244), _w(168), _w(268), _w(192)>>, BLUE, NoColor, 1),
      line(<<_w(256), _w(216), _w(256), _w(330)>>, WHITE, _stroke(26), NoJoint)
    >>)

\* def icon_no_song
icon_no_song ==
  DrawAll(_new, <<
      _rounded_rect(<<_w(120), _w(96), _w(318), _w(394)>>, _w(24), SOFT_WHITE, _stroke(26)),
      line(<<_w(338), _w(170), _w(418), _w(144), _w(418), _w(258)>>, BLUE, _stroke(20), "curve"),
      ellipse(<<_w(312), _w(274), _w(358), _w(320)>>, BLUE, NoColor, 1),
      line(<<_w(118), _w(402), _w(404), _w(108)>>, ORANGE, _stroke(22), NoJoint)
    >>)

\* def icon_gender
icon_gender(female) ==
  LET s == _stroke(24)
  IN  DrawAll(_new, <<
      ellipse(<<_w(180), _w(96), _w(332), _w(248)>>, NoColor, WHITE, s),
      IF female
      THEN arc(<<_w(158), _w(90), _w(354), _w(286)>>, 205, 335, BLUE, _stroke(30))
      ELSE rounded_rectangle(<<_w(176), _w(90), _w(336), _w(156)>>, _w(26), BLUE, NoColor, 1),
      rounded_rectangle(<<_w(108), _w(252), _w(404), _w(418)>>, _w(90), NoColor, WHITE, s)
    >>)

\* icon_beats with the run not centred: start = 256 - total
icon_beats_uncentred(count) ==
  LET spacing == 70
      total == (count - 1) * spacing
      start == 256 - total
      x(i) == start + i * spacing
      color(i) == IF i = count - 1 THEN ORANGE ELSE SOFT_WHITE
  IN  DrawAll(_new, [k \in 1..count |->
      ellipse(<<_w(x(k - 1) - 22), _w(220), _w(x(k - 1) + 22), _w(264)>>, color(k - 1), NoColor, 1)
    ] \o <<
      line(<<_w(130), _w(320), _w(382), _w(320)>>, WHITE, _stroke(18), NoJoint)
    >>)

\* def icon_beats
icon_beats(count) ==
  LET spacing == 70
      total == (count - 1) * spacing
      start == 256 - total \div 2
      \* loop variable i is 0-based as in range(count)
      x(i) == start + i * spacing
      color(i) == IF i = count - 1 THEN ORANGE ELSE SOFT_WHITE
  IN  DrawAll(_new, [k \in 1..count |->
      ellipse(<<_w(x(k - 1) - 22), _w(220), _w(x(k - 1) + 22), _w(264)>>, color(k - 1), NoColor, 1)
    ] \o <<
      line(<<_w(130), _w(320), _w(382), _w(320)>>, WHITE, _stroke(18), NoJoint)
    >>)

\* def icon_easepocket
icon_easepocket ==
  DrawAll(_new, <<
      ellipse(<<_w(92), _w(86), _w(420), _w(414)>>, NoColor, SOFT_WHITE, _stroke(20)),
      line(<<_w(124), _w(256), _w(188), _w(256), _w(236), _w(210), _w(280), _w(302), _w(336), _w(236), _w(390), _w(236)>>, BLUE, _stroke(20), "curve"),
      ellipse(<<_w(356), _w(146), _w(392), _w(182)>>, ORANGE, NoColor, 1),
      ellipse(<<_w(140), _w(318), _w(170), _w(348)>>, <<120, 120, 255, 210>>, NoColor, 1)
    >>)


\* ------------------------------------------------ registry and persistence
\* Paths are sequences of components below ROOT.
ASSETS == <<"assets", "images">>

\* the "/" of pathlib: a path extended by one component
Div(path, name) == Append(path, name)

ICON_SET == Div(ASSETS, "icon-set")

ICON_BUILD == <<
  <<Div(ICON_SET, "Singing.png"), "icon_singing">>,
  <<Div(ICON_SET, "Lyrics.png"), "icon_lyrics">>,
  <<Div(ICON_SET, "sessions.png"), "icon_sessions">>,
  <<Div(ICON_SET, "Profile.png"), "icon_profile">>,
  <<Div(ICON_SET, "Live_mode.png"), "icon_live_mode">>,
  <<Div(ICON_SET, "Lyrics_sync.png"), "icon_lyrics_sync">>,
  <<Div(ICON_SET, "Feedback_intensity_high.png"), "icon_feedback(True)">>,
  <<Div(ICON_SET, "Feedback_intensity_low.png"), "icon_feedback(False)">>,
  <<Div(ICON_SET, "Mindfullness_voice.png"), "icon_mindfulness_voice">>,
  <<Div(ICON_SET, "Language_accent.png"), "icon_language_accent">>,
  <<Div(ICON_SET, "howto-icon.png"), "icon_howto">>,
  <<Div(ASSETS, "record_icon.png"), "icon_record">>,
  <<Div(ASSETS, "Stop_icon.png"), "icon_stop">>,
  <<Div(ASSETS, "metronome_icon.png"), "icon_metronome">>,
  <<Div(ASSETS, "flag_icon.png"), "icon_flag">>,
  <<Div(ASSETS, "bpm_icon.png"), "icon_bpm">>,
  <<Div(ASSETS, "count_in_icon.png"), "icon_count_in">>,
  <<Div(ASSETS, "lyrics_flow_speed_icon.png"), "icon_lyrics_flow">>,
  <<Div(ASSETS, "about_icon.png"), "icon_about">>,
  <<Div(ASSETS, "nosong_state.png"), "icon_no_song">>,
  <<Div(ASSETS, "Female.png"), "icon_gender(True)">>,
  <<Div(ASSETS, "Male.png"), "icon_gender(False)">>,
  <<Div(ASSETS, "two_beats.png"), "icon_beats(2)">>,
  <<Div(ASSETS, "four_beats.png"), "icon_beats(4)">>,
  <<Div(ASSETS, "EasePocket.png"), "icon_easepocket">>
  >>

\* builder(): the call of a registered builder or lambda
Invoke(builder) ==
  CASE builder = "icon_singing" -> icon_singing
    [] builder = "icon_lyrics" -> icon_lyrics
    [] builder = "icon_sessions" -> icon_sessions
    [] builder = "icon_profile" -> icon_profile
    [] builder = "icon_live_mode" -> icon_live_mode
    [] builder = "icon_lyrics_sync" -> icon_lyrics_sync
    [] builder = "icon_feedback(True)" -> icon_feedback(TRUE)
    [] builder = "icon_feedback(False)" -> icon_feedback(FALSE)
    [] builder = "icon_mindfulness_voice" -> icon_mindfulness_voice
    [] builder = "icon_language_accent" -> icon_language_accent
    [] builder = "icon_howto" -> icon_howto
    [] builder = "icon_record" -> icon_record
    [] builder = "icon_stop" -> icon_stop
    [] builder = "icon_metronome" -> icon_metronome
    [] builder = "icon_flag" -> icon_flag
    [] builder = "icon_bpm" -> icon_bpm
    [] builder = "icon_count_in" -> icon_count_in
    [] builder = "icon_lyrics_flow" -> icon_lyrics_flow
    [] builder = "icon_about" -> icon_about
    [] builder = "icon_no_song" -> icon_no_song
    [] builder = "icon_gender(True)" -> icon_gender(TRUE)
    [] builder = "icon_gender(False)" -> icon_gender(FALSE)
    [] builder = "icon_beats(2)" -> icon_beats(2)
    [] builder = "icon_beats(4)" -> icon_beats(4)
    [] builder = "icon_easepocket" -> icon_easepocket


N == Len(ICON_BUILD)

\* a destination shared by two entries (entry 2 writes entry 1's file)
TargetClash(i) == IF i = 2 THEN ICON_BUILD[1][1] ELSE ICON_BUILD[i][1]

\* target and builder of the i-th (target, builder) pair of ICON_BUILD
Target(i) == ICON_BUILD[i][1]

Builder(i) == ICON_BUILD[i][2]

Targets == {Target(i) : i \in 1..N}

\* file contents
Absent == [kind |-> "absent"]
Stale == [kind |-> "stale"]      \* a file written by something before this run
Partial == [kind |-> "partial"]  \* a file whose write was interrupted

NoImage == [mode |-> "none"]

\* target.parent
parent(target) == SubSeq(target, 1, Len(target) - 1)

\* Path.mkdir(parents=True, exist_ok=True): the directory and all its
\* ancestors exist afterwards; existing ones are no error
mkdir(d) == dirs \cup {SubSeq(d, 1, k) : k \in 1..Len(d)}

\* img.resize((SIZE, SIZE), Image.Resampling.LANCZOS)
resize(img) ==
  [mode |-> img.mode, size |-> <<SIZE, SIZE>>, ops |-> img.ops, resample |-> "LANCZOS"]

\* the PNG file Image.save writes for an image
PngFile(out) == [kind |-> "png", image |-> out]

\* _save that leaves an existing destination file as it is
_save_keep_existing(img, target) ==
  [dirs |-> mkdir(parent(target)),
   files |-> IF files[target] = Absent
             THEN [files EXCEPT ![target] = PngFile(resize(img))]
             ELSE files]

\* _save(img, target): the directories and files after it returned
_save(img, target) ==
  [dirs |-> mkdir(parent(target)),
   files |-> [files EXCEPT ![target] = PngFile(resize(img))]]

\* an exception swallowed, the loop going on with the print of the entry
Swallowed == [pc |-> "print", exit |-> "running"]

\* an exception in the loop body is not caught: the script stops there and
\* the interpreter exits with a non-zero status
Uncaught == [pc |-> "failed", exit |-> "error"]

\* directories that can exist before a run: "assets", ASSETS, ICON_SET, each
\* only with its parent
AllDirs == {SubSeq(ICON_SET, 1, k) : k \in 1..Len(ICON_SET)}

DirStates == {D \in SUBSET AllDirs : \A d \in D : Len(d) > 1 => parent(d) \in D}

\* files that can exist before a run: none, an older file at one destination,
\* or an older file at every destination, always in a directory that exists
InitialFiles(D) ==
  LET Possible == {t \in Targets : parent(t) \in D}
      Old == {{}, Possible} \cup {{t} : t \in Possible}
  IN  { [t \in Targets |-> IF t \in S THEN Stale ELSE Absent] : S \in Old }

IconIdle ==
  /\ pc = "idle" /\ idx = 0 /\ canvas = NoImage
  /\ files = [t \in Targets |-> Absent] /\ dirs = {}
  /\ log = <<>> /\ built = <<>> /\ persisted = <<>>
  /\ exit = "none" /\ run = "none"
  /\ startFiles = [t \in Targets |-> Absent] /\ firstExit = "none"

ParIdle == sel = {} /\ work = <<>>

OptIdle ==
  /\ fs = <<>> /\ fs0 = <<>> /\ opc = "idle" /\ sources = <<>> /\ oi = 0
  /\ total_before = 0 /\ total_after = 0 /\ count_files = 0
  /\ report = <<>> /\ totals = <<>> /\ runs = 0 /\ firstSources = <<>>

PureIdle ==
  /\ call = "none"
  /\ arg = [num |-> 0, den |-> 1, count |-> 1, flag |-> FALSE]
  /\ result = 0 /\ prev = 0 /\ swapped = FALSE

\* ----------------------------------------------------- the __main__ loop
IconInit ==
  /\ pc = "build"
  /\ idx = 1
  /\ canvas = NoImage
  /\ dirs \in DirStates
  /\ files \in InitialFiles(dirs)
  /\ startFiles = files
  /\ log = <<>>
  /\ built = <<>>
  /\ persisted = <<>>
  /\ exit = "running"
  /\ run = "first"
  /\ firstExit = "none"
  /\ PureIdle
  /\ ParIdle
  /\ OptIdle

\* builder() returns the canvas
Build ==
  /\ pc = "build"
  /\ canvas' = Invoke(Builder(idx))
  /\ built' = Append(built, idx)
  /\ pc' = "save"
  /\ UNCHANGED <<idx, files, dirs, log, persisted, exit, run, startFiles, firstExit>>
  /\ UNCHANGED <<pureVars, parVars, optVars>>

\* builder() raises (no font support for the glyph, out of memory, ...)
BuildFails ==
  /\ pc = "build"
  /\ built' = Append(built, idx)
  /\ pc' = Uncaught.pc
  /\ exit' = Uncaught.exit
  /\ UNCHANGED <<idx, canvas, files, dirs, log, persisted, run, startFiles, firstExit>>
  /\ UNCHANGED <<pureVars, parVars, optVars>>

\* _save(builder(), target) returns
Save ==
  /\ pc = "save"
  /\ dirs' = _save(canvas, Target(idx)).dirs
  /\ files' = _save(canvas, Target(idx)).files
  /\ persisted' = Append(persisted, idx)
  /\ canvas' = NoImage
  /\ pc' = "print"
  /\ UNCHANGED <<idx, log, built, exit, run, startFiles, firstExit>>
  /\ UNCHANGED <<pureVars, parVars, optVars>>

\* _save raises in mkdir: nothing has been written
SaveFailsInMkdir ==
  /\ pc = "save"
  /\ pc' = Uncaught.pc
  /\ exit' = Uncaught.exit
  /\ canvas' = NoImage
  /\ UNCHANGED <<idx, files, dirs, log, built, persisted, run, startFiles, firstExit>>
  /\ UNCHANGED <<pureVars, parVars, optVars>>

\* _save raises in out.save: the directories exist, the destination is as it
\* was (the open failed) or holds an interrupted write
SaveFailsInWrite ==
  /\ pc = "save"
  /\ dirs' = mkdir(parent(Target(idx)))
  /\ \E left \in {files[Target(idx)], Partial} :
       files' = [files EXCEPT ![Target(idx)] = left]
  /\ pc' = Uncaught.pc
  /\ exit' = Uncaught.exit
  /\ canvas' = NoImage
  /\ UNCHANGED <<idx, log, built, persisted, run, startFiles, firstExit>>
  /\ UNCHANGED <<pureVars, parVars, optVars>>

\* print(f"generated {target.relative_to(ROOT)}"), then the next entry, or
\* the end of the script
Report ==
  /\ pc = "print"
  /\ log' = Append(log, Target(idx))
  /\ IF idx < N
     THEN idx' = idx + 1 /\ pc' = "build" /\ exit' = exit
     ELSE idx' = idx /\ pc' = "done" /\ exit' = "ok"
  /\ UNCHANGED <<canvas, files, dirs, built, persisted, run, startFiles, firstExit>>
  /\ UNCHANGED <<pureVars, parVars, optVars>>

\* the script is invoked a second time on the file system the first left
RunAgain ==
  /\ pc \in {"done", "failed"}
  /\ run = "first"
  /\ run' = "second"
  /\ firstExit' = exit
  /\ startFiles' = files
  /\ pc' = "build"
  /\ idx' = 1
  /\ canvas' = NoImage
  /\ log' = <<>>
  /\ built' = <<>>
  /\ persisted' = <<>>
  /\ exit' = "running"
  /\ UNCHANGED <<files, dirs>>
  /\ UNCHANGED <<pureVars, parVars, optVars>>

IconNext ==
  \/ Build
  \/ BuildFails
  \/ Save
  \/ SaveFailsInMkdir
  \/ SaveFailsInWrite
  \/ Report
  \/ RunAgain

SpecIcons == IconInit /\ [][IconNext]_vars

\* what the i-th entry's destination holds once the entry is persisted
Rendered(i) == PngFile(resize(Invoke(Builder(i))))

Prefix(n) == [k \in 1..n |-> k]

\* C3: a run visits the registry entries once each in registry order and
\* either persists and reports them all and ends with success, or stops at
\* the first entry whose build or persist fails: then exactly the entries
\* before it are persisted and reported, no later entry is built or
\* persisted, and the run does not end with success.
C3_FailFastInOrder ==
  pc \in {"build", "save", "print", "done", "failed"} =>
    /\ built = Prefix(Len(built))
    /\ persisted = Prefix(Len(persisted))
    /\ log = [k \in 1..Len(log) |-> Target(k)]
    /\ Len(log) <= Len(persisted)
    /\ Len(persisted) <= Len(built)
    /\ Len(built) <= Len(log) + 1
    /\ Len(built) <= N
    /\ (exit = "ok") = (pc = "done")
    /\ (exit = "error") = (pc = "failed")
    /\ pc = "done" =>
         /\ Len(built) = N /\ Len(persisted) = N /\ Len(log) = N
         /\ \A k \in 1..N : files[Target(k)] = Rendered(k)
    /\ pc = "failed" =>
         /\ Len(built) = idx /\ Len(persisted) = idx - 1 /\ Len(log) = idx - 1
         /\ \A k \in 1..(idx - 1) : files[Target(k)] = Rendered(k)
         /\ \A k \in (idx + 1)..N : files[Target(k)] = startFiles[Target(k)]

\* a run has stopped at the 7th entry, six entries persisted and reported
C3_Witness ==
  /\ pc = "failed"
  /\ exit = "error"
  /\ idx = 7
  /\ persisted = Prefix(6)
  /\ Len(log) = 6

\* C7: persisting an entry replaces whatever its destination held by the new
\* render, also when the parent directory exists; after two complete runs in
\* succession every output file holds what it held after the first.
C7_OverwriteAndIdempotent ==
  /\ \A k \in 1..Len(persisted) : files[Target(persisted[k])] = Rendered(persisted[k])
  /\ (run = "second" /\ pc = "done" /\ firstExit = "ok") => files = startFiles

\* a second complete run has overwritten the files of a first complete run
C7_Witness ==
  /\ run = "second"
  /\ pc = "done"
  /\ firstExit = "ok"
  /\ Len(persisted) = N
  /\ \A t \in Targets : startFiles[t].kind = "png" /\ files[t] = startFiles[t]

\* ------------------------- the catalog processed in any order, interleaved
\* bound: how many entries are processed out of order at a time
ParK == 2

RECURSIVE KSubsets(_)
KSubsets(k) ==
  IF k = 0 THEN {{}}
  ELSE UNION {{S \cup {i} : i \in (1..N) \ S} : S \in KSubsets(k - 1)}

ParInit ==
  /\ sel \in KSubsets(ParK)
  /\ work = [i \in sel |-> [st |-> "todo"]]
  /\ dirs \in {{}, AllDirs}
  /\ files \in {[t \in Targets |-> Absent],
                [t \in Targets |-> IF parent(t) \in dirs THEN Stale ELSE Absent]}
  /\ startFiles = files
  /\ pc = "par" /\ idx = 0 /\ canvas = NoImage
  /\ log = <<>> /\ built = <<>> /\ persisted = <<>>
  /\ exit = "running" /\ run = "first" /\ firstExit = "none"
  /\ PureIdle
  /\ OptIdle

\* some worker calls the builder of entry i
ParBuild(i) ==
  /\ work[i].st = "todo"
  /\ work' = [work EXCEPT ![i] = [st |-> "built", img |-> Invoke(Builder(i))]]
  /\ UNCHANGED <<sel, iconVars, pureVars, optVars>>

\* some worker calls _save on the canvas of entry i
ParSave(i) ==
  /\ work[i].st = "built"
  /\ dirs' = _save(work[i].img, Target(i)).dirs
  /\ files' = _save(work[i].img, Target(i)).files
  /\ work' = [work EXCEPT ![i] = [st |-> "saved"]]
  /\ UNCHANGED <<pc, idx, canvas, log, built, persisted, exit, run, startFiles, firstExit>>
  /\ UNCHANGED <<sel, pureVars, optVars>>

ParNext ==
  \/ \E i \in sel : ParBuild(i)
  \/ \E i \in sel : ParSave(i)

SpecPar == ParInit /\ [][ParNext]_vars

\* the files after the selected entries are built and saved one after the
\* other in registry order, starting with entry i on files f
RECURSIVE SeqFiles(_, _)
SeqFiles(f, i) ==
  IF i > N THEN f
  ELSE SeqFiles(IF i \in sel THEN [f EXCEPT ![Target(i)] = Rendered(i)] ELSE f, i + 1)

AllSaved == sel # {} /\ \A i \in sel : work[i].st = "saved"

\* C6: all registered destinations are pairwise distinct, a saved entry's file
\* is not overwritten by another entry, and whatever the order or
\* interleaving of the build and persist steps, the final files are those of
\* the sequential registry-order run.
C6_OrderIndependent ==
  /\ \A i, j \in 1..N : i # j => Target(i) # Target(j)
  /\ \A i \in sel : work[i].st = "saved" => files[Target(i)] = Rendered(i)
  /\ AllSaved => files = SeqFiles(startFiles, 1)
  /\ \A t \in Targets : (\A i \in sel : t # Target(i)) => files[t] = startFiles[t]

\* a later entry has replaced an older file while an earlier entry is not
\* even built
C6_Witness ==
  \E i, j \in sel :
    /\ i < j
    /\ work[i].st = "todo"
    /\ work[j].st = "saved"
    /\ startFiles[Target(j)] = Stale
    /\ files[Target(j)] = Rendered(j)

\* ------------------------------------------------- calls of pure functions
\* The scaler and the parametric builders applied to inputs drawn from
\* bounded sets.
PureInit ==
  /\ call = "none"
  /\ arg \in [num : -MaxNum..MaxNum, den : 1..MaxDen, count : 1..MaxCount, flag : BOOLEAN]
  /\ result = 0
  /\ prev = 0
  /\ swapped = FALSE
  /\ IconIdle
  /\ ParIdle
  /\ OptIdle

Call_w ==
  /\ call = "none"
  /\ call' = "_w"
  /\ result' = _w_frac(arg.num, arg.den)
  /\ UNCHANGED <<arg, prev, swapped>>
  /\ UNCHANGED <<iconVars, parVars, optVars>>

Call_stroke ==
  /\ call = "none"
  /\ call' = "_stroke"
  /\ result' = _stroke_frac(arg.num, arg.den)
  /\ UNCHANGED <<arg, prev, swapped>>
  /\ UNCHANGED <<iconVars, parVars, optVars>>

Call_icon_beats ==
  /\ call = "none"
  /\ call' = "icon_beats"
  /\ result' = icon_beats(arg.count)
  /\ UNCHANGED <<arg, prev, swapped>>
  /\ UNCHANGED <<iconVars, parVars, optVars>>

Call_icon_feedback ==
  /\ call = "none"
  /\ call' = "icon_feedback"
  /\ result' = icon_feedback(arg.flag)
  /\ UNCHANGED <<arg, prev, swapped>>
  /\ UNCHANGED <<iconVars, parVars, optVars>>

Call_icon_gender ==
  /\ call = "none"
  /\ call' = "icon_gender"
  /\ result' = icon_gender(arg.flag)
  /\ UNCHANGED <<arg, prev, swapped>>
  /\ UNCHANGED <<iconVars, parVars, optVars>>

\* the same builder run again with the boolean selector swapped
SwapSelector ==
  /\ call \in {"icon_feedback", "icon_gender"}
  /\ ~swapped
  /\ swapped' = TRUE
  /\ prev' = result
  /\ arg' = [arg EXCEPT !.flag = ~@]
  /\ result' = IF call = "icon_feedback" THEN icon_feedback(~arg.flag)
                                         ELSE icon_gender(~arg.flag)
  /\ UNCHANGED call
  /\ UNCHANGED <<iconVars, parVars, optVars>>

PureNext ==
  \/ Call_w
  \/ Call_stroke
  \/ Call_icon_beats
  \/ Call_icon_feedback
  \/ Call_icon_gender
  \/ SwapSelector

SpecPure == PureInit /\ [][PureNext]_vars

\* Python's round() of the real number n/d (d > 0): to nearest, ties to even
PyRound(n, d) ==
  LET q == n \div d
      rem == n - q * d
  IN  IF 2 * rem < d THEN q
      ELSE IF 2 * rem > d THEN q + 1
      ELSE IF q % 2 = 0 THEN q ELSE q + 1

ScalerCalled == call \in {"_w", "_stroke"}

\* C2 (as stated): _w(v) and _stroke(v) return round(v * SUPERSAMPLE_FACTOR)
\* for every logical value v, non-integer values included.
C2_RoundsEveryValue ==
  ScalerCalled => result = PyRound(arg.num * SCALE, arg.den)

\* C2 (amended): _w(v) and _stroke(v) return v * SCALE truncated toward zero:
\* the integer r of the sign of v with |r| <= |v * SCALE| < |r| + 1.  This is
\* round(v * SCALE) whenever v * SCALE is an integer, which covers every
\* integer, half and quarter value of v.
C2_TruncatesTowardZero ==
  ScalerCalled =>
    LET p == arg.num * SCALE
        d == arg.den
        r == result
    IN  /\ p >= 0 => (r >= 0 /\ r * d <= p /\ p < (r + 1) * d)
        /\ p < 0 => (r <= 0 /\ r * d >= p /\ p > (r - 1) * d)
        /\ p % d = 0 => r = PyRound(p, d)

\* a half-valued coordinate (3/2) has been scaled to 6
C2_Witness ==
  call = "_w" /\ arg.num = 3 /\ arg.den = 2 /\ result = 6

\* --------------------------------------------------------------- C4, C5
\* the ellipse calls of a canvas, in drawing order
Markers(img) == SelectSeq(img.ops, LAMBDA o : o.op = "ellipse")

\* twice the canvas x of the centre of a bounding box (left + right)
CentreX2(o) == o.xy[1] + o.xy[3]

\* C4: icon_beats(count), count >= 1, draws exactly count markers, equally
\* spaced, the first and last centres symmetric about logical x = 256, the
\* last marker in the accent colour and every other marker in the muted one.
C4_BeatsLayout ==
  call = "icon_beats" =>
    LET m == Markers(result)
        n == arg.count
    IN  /\ Len(m) = n
        /\ Len(result.ops) = n + 1
        /\ \A k \in 1..(n - 2) :
             CentreX2(m[k + 1]) - CentreX2(m[k]) = CentreX2(m[k + 2]) - CentreX2(m[k + 1])
        /\ \A k \in 1..(n - 1) : CentreX2(m[k + 1]) > CentreX2(m[k])
        /\ CentreX2(m[1]) + CentreX2(m[n]) = 2 * (2 * _w(256))
        /\ m[n].fill = ORANGE
        /\ \A k \in 1..(n - 1) : m[k].fill = SOFT_WHITE

\* icon_beats(4), as registered for four_beats.png, has been drawn
C4_Witness ==
  /\ call = "icon_beats"
  /\ arg.count = 4
  /\ Len(Markers(result)) = 4
  /\ Markers(result)[4].fill = ORANGE

BoolBuilderSwapped == call \in {"icon_feedback", "icon_gender"} /\ swapped

\* the positions at which two call sequences of equal length differ
DiffAt(a, b) == {k \in 1..Len(a) : a[k] # b[k]}

\* the accented sub-element: a call filled with an accent hue
Accented(o) == o.fill \in {ORANGE, BLUE}

\* C5 (as stated): for icon_feedback and icon_gender the calls made for the two
\* selector values differ only in the accented sub-element; every call that is
\* accented for neither value is identical (geometry and colour) for both.
C5_OnlyAccentDiffers ==
  BoolBuilderSwapped =>
    /\ Len(prev.ops) = Len(result.ops)
    /\ \A k \in 1..Len(result.ops) :
         (~Accented(prev.ops[k]) /\ ~Accented(result.ops[k]))
           => prev.ops[k] = result.ops[k]

\* bar k of a feedback canvas without its top edge and colour
BarFrame(o) == [op |-> o.op, left |-> o.xy[1], right |-> o.xy[3], base |-> o.xy[4],
                radius |-> o.radius, outline |-> o.outline, width |-> o.width]

AccentBars(img) == {k \in 1..Len(img.ops) : img.ops[k].fill = ORANGE}

MutedBars(img) == {k \in 1..Len(img.ops) : img.ops[k].fill = SOFT_WHITE}

\* C5 (amended): icon_gender's two call sequences differ in the second call
\* only (arc for female, filled rounded rectangle for male).  icon_feedback's
\* two sequences are four bars with the same left/right edges, baseline and
\* corner radius; exactly one bar is accented, the 4th for high and the 1st
\* for low, the others are muted; the bar heights (top edges) differ between
\* the two selector values at every bar.
C5_SelectorEffect ==
  BoolBuilderSwapped =>
    /\ Len(prev.ops) = Len(result.ops)
    /\ call = "icon_gender" =>
         /\ DiffAt(prev.ops, result.ops) = {2}
         /\ {prev.ops[2].op, result.ops[2].op} = {"arc", "rounded_rectangle"}
         /\ result.ops[2].op = (IF arg.flag THEN "arc" ELSE "rounded_rectangle")
    /\ call = "icon_feedback" =>
         /\ Len(result.ops) = 4
         /\ \A k \in 1..4 : BarFrame(prev.ops[k]) = BarFrame(result.ops[k])
         /\ AccentBars(result) = (IF arg.flag THEN {4} ELSE {1})
         /\ AccentBars(prev) = (IF arg.flag THEN {1} ELSE {4})
         /\ MutedBars(result) = (1..4) \ AccentBars(result)
         /\ MutedBars(prev) = (1..4) \ AccentBars(prev)
         /\ \A k \in 1..4 : prev.ops[k].xy[2] # result.ops[k].xy[2]

\* icon_feedback has been built for low and then for high
C5_Witness ==
  /\ call = "icon_feedback"
  /\ swapped
  /\ arg.flag
  /\ AccentBars(result) = {4}
  /\ AccentBars(prev) = {1}

\* ------------------------------------------------- optimize_web_assets.py
\* bounds: largest source file size (the re-encode may be one larger), and how
\* many times the script is started
MaxSize == 2
MaxRuns == 2

IMAGES_ROOT == <<"assets", "images">>

SKIP_PREFIXES == {"assets/images/web/"}

SKIP_EXACT == {
  "assets/images/android-icon-background.png",
  "assets/images/android-icon-foreground.png",
  "assets/images/android-icon-monochrome.png"
  }

\* Path.as_posix() of a path relative to ROOT
RECURSIVE as_posix(_)
as_posix(path) ==
  IF Len(path) = 1 THEN path[1]
  ELSE as_posix(SubSeq(path, 1, Len(path) - 1)) \o "/" \o path[Len(path)]

\* str.startswith, str.endswith
startswith(s, prefix) == Len(s) >= Len(prefix) /\ SubSeq(s, 1, Len(prefix)) = prefix

endswith(s, suffix) ==
  Len(s) >= Len(suffix) /\ SubSeq(s, Len(s) - Len(suffix) + 1, Len(s)) = suffix

\* Path.name
name(path) == path[Len(path)]

\* Path.stem: the name without its last suffix; a leading or a trailing dot
\* starts no suffix
stem(path) ==
  LET n == name(path)
      dots == {i \in 1..Len(n) : SubSeq(n, i, i) = "."}
      last == CHOOSE i \in dots : \A j \in dots : j <= i
  IN  IF dots # {} /\ 1 < last /\ last < Len(n) THEN SubSeq(n, 1, last - 1) ELSE n

\* Path.with_name
with_name(path, n) == Append(parent(path), n)

\* should_process without the test of the variant suffix
should_process_variants_too(path) ==
  LET rel == as_posix(path)
  IN  IF \E prefix \in SKIP_PREFIXES : startswith(rel, prefix) THEN FALSE
      ELSE IF rel \in SKIP_EXACT THEN FALSE
      ELSE TRUE

should_process(path) ==
  LET rel == as_posix(path)
  IN  IF \E prefix \in SKIP_PREFIXES : startswith(rel, prefix) THEN FALSE
      ELSE IF rel \in SKIP_EXACT THEN FALSE
      ELSE IF endswith(name(path), ".web.png") THEN FALSE
      ELSE TRUE

\* the code points of the characters of the modelled paths, in ASCII order
Ascii == "-./0123456789ABCDEFGHIJKLMNOPQRSTUVWXYZ_abcdefghijklmnopqrstuvwxyz"

Ord(c) == CHOOSE i \in 1..Len(Ascii) : SubSeq(Ascii, i, i) = c

\* str.__lt__: lexicographic by code point
RECURSIVE StrLess(_, _)
StrLess(a, b) ==
  IF Len(b) = 0 THEN FALSE
  ELSE IF Len(a) = 0 THEN TRUE
  ELSE LET x == Ord(SubSeq(a, 1, 1))
           y == Ord(SubSeq(b, 1, 1))
       IN  IF x # y THEN x < y
           ELSE StrLess(SubSeq(a, 2, Len(a)), SubSeq(b, 2, Len(b)))

\* PurePath.__lt__: lexicographic by component
RECURSIVE PathLess(_, _)
PathLess(p, q) ==
  IF Len(q) = 0 THEN FALSE
  ELSE IF Len(p) = 0 THEN TRUE
  ELSE IF p[1] # q[1] THEN StrLess(p[1], q[1])
  ELSE PathLess(Tail(p), Tail(q))

\* sorted(): x put in its place in the sorted sequence s
RECURSIVE Insert(_, _)
Insert(x, s) ==
  IF s = <<>> THEN <<x>>
  ELSE IF PathLess(Head(s), x) THEN <<Head(s)>> \o Insert(x, Tail(s))
  ELSE <<x>> \o s

RECURSIVE sorted(_)
sorted(s) == IF s = <<>> THEN <<>> ELSE Insert(Head(s), sorted(Tail(s)))

\* IMAGES_ROOT.rglob("*.png"): the files below IMAGES_ROOT whose name matches
rglob_png(root) ==
  {p \in DOMAIN fs : /\ Len(p) > Len(root)
                     /\ SubSeq(p, 1, Len(root)) = root
                     /\ endswith(name(p), ".png")}

\* the sequences that enumerate a set, each element once
RECURSIVE Orders(_)
Orders(S) ==
  IF S = {} THEN {<<>>}
  ELSE UNION {{<<x>> \o o : o \in Orders(S \ {x})} : x \in S}

\* the list [p for p in IMAGES_ROOT.rglob("*.png") if should_process(p)]: the
\* matching files that pass the filter, in the order rglob yields them, which
\* the file system decides
Comprehensions == Orders({p \in rglob_png(IMAGES_ROOT) : should_process(p)})

\* discover_sources without the sort
discover_sources_unsorted(found) == found

\* discover_sources() when the comprehension produced the list found
discover_sources(found) == sorted(found)

\* a file holding content c is written at path p
Write(f, p, c) == [q \in DOMAIN f \cup {p} |-> IF q = p THEN c ELSE f[q]]

\* "A" in image.getbands()
HasAlpha(mode) == mode \in {"RGBA", "LA"}

\* the file that optimized.save(dst, format="PNG", optimize=True,
\* compress_level=9) writes when the encoder produces enc bytes
Reencoded(file, enc) ==
  [image |-> [pix |-> file.image.pix,
              mode |-> IF HasAlpha(file.image.mode) THEN "RGBA" ELSE "RGB"],
   size |-> enc,
   codec |-> "png-optimize-9"]

\* optimize without the copy-fallback
optimize_no_fallback(src, enc) ==
  LET dst == with_name(src, stem(src) \o ".web.png")
      before == fs[src].size
      fs1 == Write(fs, dst, Reencoded(fs[src], enc))
      after1 == fs1[dst].size
  IN  [dst |-> dst, before |-> before, after |-> after1, fs |-> fs1]

\* optimize with the size not read again after the copy
optimize_no_restat(src, enc) ==
  LET dst == with_name(src, stem(src) \o ".web.png")
      before == fs[src].size
      fs1 == Write(fs, dst, Reencoded(fs[src], enc))
      after1 == fs1[dst].size
      fs2 == IF after1 > before THEN Write(fs1, dst, fs1[src]) ELSE fs1
  IN  [dst |-> dst, before |-> before, after |-> after1, fs |-> fs2]

\* optimize(src) when the encoder produces enc bytes: (dst, before, after) and
\* the files it leaves
optimize(src, enc) ==
  LET dst == with_name(src, stem(src) \o ".web.png")
      before == fs[src].size
      fs1 == Write(fs, dst, Reencoded(fs[src], enc))
      after1 == fs1[dst].size
      \* shutil.copyfile(src, dst), then stat again
      fs2 == IF after1 > before THEN Write(fs1, dst, fs1[src]) ELSE fs1
      after == IF after1 > before THEN fs2[dst].size ELSE after1
  IN  [dst |-> dst, before |-> before, after |-> after, fs |-> fs2]

\* human_size: the unit and the printed number in tenths
human_size(size) ==
  IF size < 1024 THEN [unit |-> "B", tenths |-> 10 * size]
  ELSE IF size < 1024 * 1024 THEN [unit |-> "KB", tenths |-> PyRound(10 * size, 1024)]
  ELSE [unit |-> "MB", tenths |-> PyRound(10 * size, 1024 * 1024)]

\* (1 - after / before) * 100 as printed with one decimal: tenths of a percent
reduction(before, after) ==
  IF before = 0 THEN 0 ELSE PyRound((before - after) * 1000, before)

\* the files that may exist before the first run.  The first two offered as
\* sources come in every size up to MaxSize, the other files are one byte.
OrigFile(pix, mode, size) ==
  [image |-> [pix |-> pix, mode |-> mode], size |-> size, codec |-> "orig"]

Sized == {
  <<Div(IMAGES_ROOT, "a.png"), "RGBA">>,
  <<Div(IMAGES_ROOT, "web.png"), "P">>
  }

SourceLike == Sized \cup {
  <<Div(Div(IMAGES_ROOT, "icon-set"), "a.png"), "RGB">>
  }

Others == {
  <<Div(IMAGES_ROOT, "a.web.png"), "RGBA">>,
  <<Div(Div(IMAGES_ROOT, "web"), "b.png"), "RGB">>,
  <<Div(IMAGES_ROOT, "android-icon-background.png"), "RGB">>,
  <<Div(IMAGES_ROOT, "notes.txt"), "text">>,
  <<Div(<<"assets">>, "x.png"), "RGB">>
  }

\* of the others: none, an older variant alone, or all of them
OtherSets == {{}, {c \in Others : c[1] = Div(IMAGES_ROOT, "a.web.png")}, Others}

InitialFs ==
  { [p \in {c[1] : c \in S \cup T} |->
       LET c == CHOOSE c \in S \cup T : c[1] = p
       IN  OrigFile(as_posix(p), c[2], IF c \in Sized THEN size[c] ELSE 1)] :
    S \in SUBSET SourceLike, T \in OtherSets, size \in [Sized -> 1..MaxSize] }

OptInit ==
  /\ fs \in InitialFs
  /\ fs0 = fs
  /\ opc = "start"
  /\ sources = <<>>
  /\ oi = 1
  /\ total_before = 0
  /\ total_after = 0
  /\ count_files = 0
  /\ report = <<>>
  /\ totals = <<>>
  /\ runs = 1
  /\ firstSources = <<>>
  /\ PureIdle
  /\ IconIdle
  /\ ParIdle

\* run(discover_sources()): the argument is evaluated, the header printed
Discover ==
  /\ opc = "start"
  /\ \E found \in Comprehensions : sources' = discover_sources(found)
  /\ firstSources' = IF runs = 1 THEN sources' ELSE firstSources
  /\ opc' = "loop"
  /\ oi' = 1
  /\ total_before' = 0
  /\ total_after' = 0
  /\ count_files' = 0
  /\ report' = <<>>
  /\ totals' = <<>>
  /\ UNCHANGED <<fs, fs0, runs>>
  /\ UNCHANGED <<pureVars, iconVars, parVars>>

\* one pass of the loop body of run
OptimizeNext ==
  /\ opc = "loop"
  /\ oi <= Len(sources)
  /\ \E enc \in 1..(MaxSize + 1) :
       LET src == sources[oi]
           r == optimize(src, enc)
       IN  /\ fs' = r.fs
           /\ total_before' = total_before + r.before
           /\ total_after' = total_after + r.after
           /\ report' = Append(report,
                [src |-> src, dst |-> r.dst, before |-> r.before, after |-> r.after,
                 shown_before |-> human_size(r.before), shown_after |-> human_size(r.after),
                 reduction |-> reduction(r.before, r.after), encoded |-> enc])
  /\ count_files' = count_files + 1
  /\ oi' = oi + 1
  /\ UNCHANGED <<fs0, opc, sources, totals, runs, firstSources>>
  /\ UNCHANGED <<pureVars, iconVars, parVars>>

\* optimize raises: Image.open rejects the file (nothing is written) or the
\* save is interrupted (the variant holds an incomplete write)
OptimizeFails ==
  /\ opc = "loop"
  /\ oi <= Len(sources)
  /\ \/ fs' = fs
     \/ fs' = Write(fs, with_name(sources[oi], stem(sources[oi]) \o ".web.png"),
                    [image |-> [pix |-> "none", mode |-> "none"], size |-> 0,
                     codec |-> "partial"])
  /\ opc' = "failed"
  /\ UNCHANGED <<fs0, sources, oi, total_before, total_after, count_files, report, totals,
                 runs, firstSources>>
  /\ UNCHANGED <<pureVars, iconVars, parVars>>

\* the loop is over: the "Total" line, return 0
PrintTotals ==
  /\ opc = "loop"
  /\ oi > Len(sources)
  /\ totals' = <<[count |-> count_files, before |-> total_before, after |-> total_after,
                  shown_before |-> human_size(total_before),
                  shown_after |-> human_size(total_after),
                  reduction |-> reduction(total_before, total_after)]>>
  /\ opc' = "done"
  /\ UNCHANGED <<fs, fs0, sources, oi, total_before, total_after, count_files, report,
                 runs, firstSources>>
  /\ UNCHANGED <<pureVars, iconVars, parVars>>

\* the script is started again on the files the last run left
OptAgain ==
  /\ opc \in {"done", "failed"}
  /\ runs < MaxRuns
  /\ runs' = runs + 1
  /\ opc' = "start"
  /\ UNCHANGED <<fs, fs0, sources, oi, total_before, total_after, count_files, report,
                 totals, firstSources>>
  /\ UNCHANGED <<pureVars, iconVars, parVars>>

OptNext ==
  \/ Discover
  \/ OptimizeNext
  \/ OptimizeFails
  \/ PrintTotals
  \/ OptAgain

SpecOpt == OptInit /\ [][OptNext]_vars

\* ------------------------------------------------------ C1, C8, C9, C10
Range(s) == {s[i] : i \in DOMAIN s}

\* the variant path of a source: same directory, stem + ".web.png"
VariantOf(src) == with_name(src, stem(src) \o ".web.png")

\* C1: once optimize(src) has returned, the variant is no larger than the
\* source, and when the re-encode was larger than the source the variant is a
\* byte-identical copy of the source.
C1_VariantNeverLarger ==
  \A k \in 1..Len(report) :
    LET r == report[k]
    IN  /\ r.src \in DOMAIN fs
        /\ r.dst \in DOMAIN fs
        /\ fs[r.dst].size <= fs[r.src].size
        /\ r.encoded > r.before => fs[r.dst] = fs[r.src]
        /\ r.encoded <= r.before => fs[r.dst] = Reencoded(fs[r.src], r.encoded)

\* a re-encode larger than its source has been replaced by a copy
C1_Witness ==
  \E k \in 1..Len(report) :
    /\ report[k].encoded > report[k].before
    /\ fs[report[k].dst] = fs[report[k].src]
    /\ fs[report[k].dst].codec = "orig"

\* a PNG file of the asset tree that is a source according to the three
\* exclusion rules, stated on path components
UnderWebDir(p) == Len(p) > 3 /\ SubSeq(p, 1, 3) = <<"assets", "images", "web">>

AndroidIcons == {Div(IMAGES_ROOT, "android-icon-background.png"),
                 Div(IMAGES_ROOT, "android-icon-foreground.png"),
                 Div(IMAGES_ROOT, "android-icon-monochrome.png")}

ExpectedSources ==
  {p \in DOMAIN fs : /\ Len(p) > 2
                     /\ SubSeq(p, 1, 2) = <<"assets", "images">>
                     /\ endswith(name(p), ".png")
                     /\ ~UnderWebDir(p)
                     /\ p \notin AndroidIcons
                     /\ ~endswith(name(p), ".web.png")}

JustDiscovered == opc = "loop" /\ oi = 1

\* C8: discover_sources returns exactly the PNG files under the asset tree
\* whose path starts with no excluded prefix, is no excluded exact path and
\* whose name does not end with ".web.png", each once, in sorted order.
C8_DiscoverExactlySources ==
  JustDiscovered =>
    /\ Range(sources) = ExpectedSources
    /\ Len(sources) = Cardinality(ExpectedSources)
    /\ \A i, j \in 1..Len(sources) : i < j => PathLess(sources[i], sources[j])

\* three sources found, in order, among excluded files of every kind
C8_Witness ==
  /\ JustDiscovered
  /\ sources = <<Div(IMAGES_ROOT, "a.png"),
                 Div(Div(IMAGES_ROOT, "icon-set"), "a.png"),
                 Div(IMAGES_ROOT, "web.png")>>
  /\ Div(IMAGES_ROOT, "a.web.png") \in DOMAIN fs
  /\ Div(Div(IMAGES_ROOT, "web"), "b.png") \in DOMAIN fs
  /\ Div(IMAGES_ROOT, "android-icon-background.png") \in DOMAIN fs

RECURSIVE SumBefore(_)
SumBefore(s) == IF s = <<>> THEN 0 ELSE Head(s).before + SumBefore(Tail(s))

RECURSIVE SumAfter(_)
SumAfter(s) == IF s = <<>> THEN 0 ELSE Head(s).after + SumAfter(Tail(s))

\* C9: when the re-encode of a source is larger than the source, the reported
\* after-size is the before-size and the reported reduction is 0.0%; no
\* per-file or aggregate reduction is negative; the aggregate totals are the
\* sums of the per-file sizes over all processed sources.
C9_ReportedReductions ==
  /\ \A k \in 1..Len(report) :
       LET r == report[k]
       IN  /\ r.encoded > r.before => (r.after = r.before /\ r.reduction = 0)
           /\ r.reduction >= 0
           /\ r.after <= r.before
  /\ opc \in {"loop", "done", "failed"} =>
       /\ total_before = SumBefore(report)
       /\ total_after = SumAfter(report)
  /\ totals # <<>> =>
       /\ totals[1].before = SumBefore(report)
       /\ totals[1].after = SumAfter(report)
       /\ totals[1].count = Len(sources)
       /\ Len(report) = Len(sources)
       /\ totals[1].reduction >= 0

\* a run has reported one file at 0.0% after the copy-fallback and one
\* file at 50.0%
C9_Witness ==
  /\ totals # <<>>
  /\ \E k \in 1..Len(report) : report[k].encoded > report[k].before /\ report[k].reduction = 0
  /\ \E k \in 1..Len(report) : report[k].reduction = 500
  /\ totals[1].reduction > 0

\* the paths that hold something else than before the first run
Written == {p \in DOMAIN fs : p \notin DOMAIN fs0 \/ fs[p] # fs0[p]}

\* C10: no run modifies or deletes a source file; runs write only to variant
\* paths (stem + ".web.png"), which are no sources and are distinct for
\* distinct sources; every later run discovers the sources of the first run,
\* and no ".web.web.png" file is produced.
C10_SourcesUntouched ==
  /\ DOMAIN fs0 \subseteq DOMAIN fs
  /\ \A s \in Range(firstSources) \cup Range(sources) : fs[s] = fs0[s]
  /\ \A p \in Written :
       /\ \E s \in Range(firstSources) : p = VariantOf(s)
       /\ endswith(name(p), ".web.png")
       /\ ~endswith(name(p), ".web.web.png")
       /\ p \notin Range(sources)
       /\ p \notin ExpectedSources
  /\ \A i, j \in 1..Len(sources) : i # j => VariantOf(sources[i]) # VariantOf(sources[j])
  /\ (runs > 1 /\ opc \in {"loop", "done", "failed"}) => sources = firstSources

\* a second run is over: it found the three sources of the first run and
\* wrote their variants again, one of them over a variant older than both
C10_Witness ==
  /\ runs = 2
  /\ opc = "done"
  /\ Len(sources) = 3
  /\ sources = firstSources
  /\ Div(IMAGES_ROOT, "a.web.png") \in DOMAIN fs0 \cap Written
  /\ Cardinality(Written) = 3

\* ------------------------------------------------------- the whole model
\* either script started, or one of the pure functions called
Init == PureInit \/ IconInit \/ ParInit \/ OptInit

Next == PureNext \/ IconNext \/ ParNext \/ OptNext

Spec == Init /\ [][Next]_vars

=============================================================================
